---- MODULE Spec2Model ----
(***************************************************************************)
(* SWCharEst.Get (src/src/SWCharEst.py): the Saxton & Rawls (2006)         *)
(* estimate of wilting point, field capacity, saturated water content and  *)
(* saturated hydraulic conductivity from sand, clay and organic matter.    *)
(*                                                                         *)
(* Numbers.  The Python floats are modelled as decimal fixed-point reals   *)
(* with 20 fractional digits.  With sand, clay and organic matter given in *)
(* hundredths, every value of the regression chain up to thetaS has at     *)
(* most 18 decimals, so that part is computed exactly; log, the two        *)
(* divisions and pow are evaluated to about 18 digits.  The rounding error *)
(* of IEEE doubles (about 1e-16 relative) is not modelled.                 *)
(***************************************************************************)
EXTENDS Integers, Sequences, FiniteSets, TLC

(***************************************************************************)
(* Fixed-point reals.  A real is a tuple of NL limbs, least significant    *)
(* first: limbs 1..NL-1 are digits in base Base, limb NL is a signed       *)
(* integer, and the value is (SUM x[i] * Base^(i-1)) / Base^FL.            *)
(***************************************************************************)
Prec == [base |-> 10000, frac |-> 5, limbs |-> 7, newton |-> 4, lnTerms |-> 16, expTerms |-> 18]
Base == Prec.base
FL == Prec.frac
NL == Prec.limbs

\* The limbs with v in place i and 0 elsewhere.
Unit(i, v) == <<IF i = 1 THEN v ELSE 0, IF i = 2 THEN v ELSE 0, IF i = 3 THEN v ELSE 0,
                IF i = 4 THEN v ELSE 0, IF i = 5 THEN v ELSE 0, IF i = 6 THEN v ELSE 0,
                IF i = 7 THEN v ELSE 0>>

\* Carries: every limb but the last is brought into 0..Base-1.
RECURSIVE CarryFrom(_, _, _)
CarryFrom(cs, k, v) ==
    IF k = Len(cs) THEN <<v>>
    ELSE <<v % Base>> \o CarryFrom(cs, k + 1, cs[k + 1] + (v \div Base))

Carry(cs) == CarryFrom(cs, 1, cs[1])

Zero == <<0, 0, 0, 0, 0, 0, 0>>
Add(a, b) == Carry(<<a[1] + b[1], a[2] + b[2], a[3] + b[3], a[4] + b[4],
                     a[5] + b[5], a[6] + b[6], a[7] + b[7]>>)
Sub(a, b) == Carry(<<a[1] - b[1], a[2] - b[2], a[3] - b[3], a[4] - b[4],
                     a[5] - b[5], a[6] - b[6], a[7] - b[7]>>)
Neg(a) == Carry(<<0 - a[1], 0 - a[2], 0 - a[3], 0 - a[4], 0 - a[5], 0 - a[6], 0 - a[7]>>)
IntMul(n, a) == Carry(<<n * a[1], n * a[2], n * a[3], n * a[4], n * a[5], n * a[6], n * a[7]>>)

Sgn(a) == IF a[NL] < 0 THEN -1 ELSE IF a = Zero THEN 0 ELSE 1
Lt(a, b) == Sgn(Sub(a, b)) < 0
Le(a, b) == Sgn(Sub(a, b)) <= 0
RMin(a, b) == IF Lt(b, a) THEN b ELSE a
RMax(a, b) == IF Lt(a, b) THEN b ELSE a
Abs(a) == IF Sgn(a) < 0 THEN Neg(a) ELSE a

\* 10^r for a small r.
RECURSIVE Pow10(_)
Pow10(r) == IF r = 0 THEN 1 ELSE 10 * Pow10(r - 1)

\* The real n * 10^(-k), for an integer n below 10^5 in size (10^7 when
\* k is even) and 0 <= k <= 20.
Q(n, k) ==
    Carry(Unit(((4 * FL - k) \div 4) + 1, n * Pow10((4 * FL - k) % 4)))

\* The columns of the schoolbook product: column k is SUM a[i] * b[k+1-i].
Columns(a, b) ==
    <<a[1]*b[1],
      a[1]*b[2] + a[2]*b[1],
      a[1]*b[3] + a[2]*b[2] + a[3]*b[1],
      a[1]*b[4] + a[2]*b[3] + a[3]*b[2] + a[4]*b[1],
      a[1]*b[5] + a[2]*b[4] + a[3]*b[3] + a[4]*b[2] + a[5]*b[1],
      a[1]*b[6] + a[2]*b[5] + a[3]*b[4] + a[4]*b[3] + a[5]*b[2] + a[6]*b[1],
      a[1]*b[7] + a[2]*b[6] + a[3]*b[5] + a[4]*b[4] + a[5]*b[3] + a[6]*b[2] + a[7]*b[1],
      a[2]*b[7] + a[3]*b[6] + a[4]*b[5] + a[5]*b[4] + a[6]*b[3] + a[7]*b[2],
      a[3]*b[7] + a[4]*b[6] + a[5]*b[5] + a[6]*b[4] + a[7]*b[3],
      a[4]*b[7] + a[5]*b[6] + a[6]*b[5] + a[7]*b[4],
      a[5]*b[7] + a[6]*b[6] + a[7]*b[5],
      a[6]*b[7] + a[7]*b[6],
      a[7]*b[7]>>

\* The limbs from position k on, folded into one signed integer.
RECURSIVE FoldTop(_, _)
FoldTop(p, k) == IF k = Len(p) THEN p[k] ELSE p[k] + Base * FoldTop(p, k + 1)

\* The limbs of a full product p from the unit of the result on.
Shift(p) == <<p[6], p[7], p[8], p[9], p[10], p[11], FoldTop(p, 12)>>

\* a * b, rounded down to 20 decimals (exact when the product has no more).
Mul(a, b) == Shift(Carry(Columns(a, b)))


\* a / n rounded down, for an integer 0 < n < 200000.
RECURSIVE IntDivFrom(_, _, _, _)
IntDivFrom(a, n, i, v) ==
    IF i = 1 THEN <<v \div n>>
    ELSE IntDivFrom(a, n, i - 1, (v % n) * Base + a[i - 1]) \o <<v \div n>>

IntDiv(a, n) == IntDivFrom(a, n, NL, a[NL])

\* a / n rounded towards zero.
IntQuot(a, n) == IF Sgn(a) < 0 THEN Neg(IntDiv(Neg(a), n)) ELSE IntDiv(a, n)

\* The highest nonzero limb of a positive real.
RECURSIVE TopLimb(_, _)
TopLimb(d, i) == IF i = 1 \/ d[i] # 0 THEN i ELSE TopLimb(d, i - 1)

\* n Newton steps x := x + x * (1 - d * x) towards 1 / d.
RECURSIVE Newton(_, _, _)
Newton(d, x, n) ==
    IF n = 0 \/ x = Zero THEN x
    ELSE Newton(d, Add(x, Mul(x, Sub(Q(1, 0), Mul(d, x)))), n - 1)

\* 1 / d for a real d with 10^(-12) <= d < 10^8: a first guess from the two
\* leading limbs of d (five significant digits), then Newton's iteration.
Guess(d, p, m) ==
    Carry(Unit(((8 * FL - 4 * p - 1 - m) \div 4) + 1,
               (Pow10(9) \div ((d[p] * Base + d[p - 1]) \div Pow10(m)))
               * Pow10((8 * FL - 4 * p - 1 - m) % 4)))
Digits(h) == IF h < 10 THEN 0 ELSE IF h < 100 THEN 1 ELSE IF h < 1000 THEN 2 ELSE 3
RecipAt(d, p) == Newton(d, Guess(d, p, Digits(d[p])), Prec.newton)
Recip(d) == RecipAt(d, TopLimb(d, NL))

\* a / b for b # 0.
Div(a, b) == IF Sgn(b) > 0 THEN Mul(a, Recip(b)) ELSE Neg(Mul(a, Recip(Neg(b))))

\* ln 2 to 20 decimals.
Ln2 == <<941, 9453, 559, 4718, 6931, 0, 0>>

\* <<y, k>> with x = y * 2^k and 3/4 <= y < 3/2, for a real x > 0.
RECURSIVE LnReduce(_, _)
LnReduce(x, k) ==
    IF Lt(x, Q(75, 2)) THEN LnReduce(Add(x, x), k - 1)
    ELSE IF Le(Q(15, 1), x) THEN LnReduce(IntDiv(x, 2), k + 1)
    ELSE <<x, k>>

\* SUM z^(2n+1) / (2n+1): st is <<z^(2n+1), the sum of the terms before n>>.
RECURSIVE AtanhSum(_, _, _)
AtanhSum(st, z2, n) ==
    IF n > Prec.lnTerms \/ st[1] = Zero THEN st[2]
    ELSE AtanhSum(<<Mul(st[1], z2), Add(st[2], IntQuot(st[1], 2 * n + 1))>>, z2, n + 1)

\* The natural logarithm of a real x > 0:
\* ln x = k ln 2 + 2 atanh((y - 1) / (y + 1)) with x = y * 2^k.
LnSeries(z, k) == Add(IntMul(k, Ln2), IntMul(2, AtanhSum(<<z, Zero>>, Mul(z, z), 0)))
LnReduced(yk) == LnSeries(Div(Sub(yk[1], Q(1, 0)), Add(yk[1], Q(1, 0))), yk[2])
Ln(x) == LnReduced(LnReduce(x, 0))

\* SUM w^n / n!: st is <<w^n / n!, the sum of the terms before n>>.
RECURSIVE ExpSum(_, _, _)
ExpSum(st, w, n) ==
    IF n > Prec.expTerms \/ st[1] = Zero THEN st[2]
    ELSE ExpSum(<<IntQuot(Mul(st[1], w), n + 1), Add(st[2], st[1])>>, w, n + 1)

\* e^w: the argument is halved until it is below 1/4 in size, the Taylor
\* series is summed there, and the result is squared back.
\* <<v, j>> with w = v * 2^j and v below 1/4 in size.
RECURSIVE ExpReduce(_, _)
ExpReduce(w, j) ==
    IF Lt(Abs(w), Q(25, 2)) THEN <<w, j>> ELSE ExpReduce(IntQuot(w, 2), j + 1)

\* a^(2^j)
RECURSIVE SqrN(_, _)
SqrN(a, j) == IF j = 0 \/ a = Zero THEN a ELSE SqrN(Mul(a, a), j - 1)

ExpReduced(vj) == SqrN(ExpSum(<<Q(1, 0), Zero>>, vj[1], 0), vj[2])
Exp(w) == ExpReduced(ExpReduce(w, 0))
\* Whether a real is a whole number.
IsInt(a) == \A i \in 1..FL : a[i] = 0

(***************************************************************************)
(* Python built-ins and math functions used by Get.                        *)
(***************************************************************************)
\* round(x, 6), in millionths: round half to even.
Round6(x) ==
    LET whole == (x[NL - 1] + Base * x[NL]) * Pow10(6) + x[FL] * 100 + x[FL - 1] \div 100
        rest == [i \in 1..(FL - 1) |-> IF i = FL - 1 THEN x[i] % 100 ELSE x[i]]
        half == [i \in 1..(FL - 1) |-> IF i = FL - 1 THEN 50 ELSE 0]
        more == rest[FL - 1] > 50 \/ (rest[FL - 1] = 50 /\ \E i \in 1..(FL - 2) : rest[i] > 0)
    IN IF more \/ (rest = half /\ whole % 2 = 1) THEN whole + 1 ELSE whole

\* math.log(x): the logarithm, or a ValueError outside its domain.
MathLog(x) == IF Sgn(x) <= 0 THEN [exc |-> "ValueError", val |-> Zero]
              ELSE [exc |-> "", val |-> Ln(x)]

\* math.pow(x, y): x^y, or a ValueError for a negative base with a
\* fractional exponent or a zero base with a negative exponent.
MathPow(x, y) ==
    IF Sgn(y) = 0 THEN [exc |-> "", val |-> Q(1, 0)]
    ELSE IF Sgn(x) = 0
         THEN (IF Sgn(y) < 0 THEN [exc |-> "ValueError", val |-> Zero]
               ELSE [exc |-> "", val |-> Zero])
    ELSE IF Sgn(x) > 0 THEN [exc |-> "", val |-> Exp(Mul(y, Ln(x)))]
    ELSE IF ~IsInt(y) THEN [exc |-> "ValueError", val |-> Zero]
    ELSE [exc |-> "",
          val |-> IF (y[NL - 1] + Base * y[NL]) % 2 = 0 THEN Exp(Mul(y, Ln(Neg(x))))
                  ELSE Neg(Exp(Mul(y, Ln(Neg(x)))))]

(***************************************************************************)
(* The arguments.  sand and clay are held in hundredths (85 is 0.85) and   *)
(* ompc in hundredths of a percent (208 is 2.08 %).                        *)
(***************************************************************************)
MaxSand == 11
MaxClay == 11
MaxOm == 8
NumInstances == 2

Frac(n) == Q(n, 2)

\* The grid of calls: sand and clay from -0.1 in steps of 0.1, organic
\* matter from -10 % in steps of 10 %.
GridCalls ==
    {<<1, 10 * i, 10 * j, 1000 * k, d>> :
        i \in (0 - 1)..MaxSand, j \in (0 - 1)..MaxClay, k \in (0 - 1)..MaxOm, d \in {FALSE}}

\* The two cases of the test harness.
soilTexture == {<<85, 4, 208>>, <<15, 18, 305>>}
expected == [t \in soilTexture |->
    IF t = <<85, 4, 208>> THEN <<Q(400, 4), Q(9785, 5), Q(4545, 4), Q(3096, 6)>>
    ELSE <<Q(1286, 4), Q(33148, 5), Q(5050, 4), Q(433, 6)>>]
TestCalls == {<<1, t[1], t[2], t[3], d>> : t \in soilTexture, d \in BOOLEAN}

\* The calls of a run that also records the previous call: any instance,
\* DEBUG on or off, over a few textures and organic matter around the cap.
PairCalls ==
    {<<o, s, c, 1000 * k, d>> :
        o \in 1..NumInstances, s \in {0, 70}, c \in {0, 50, 100},
        k \in (MaxOm - 1)..MaxOm, d \in BOOLEAN}

(***************************************************************************)
(* SWCharEst.__CheckArgs                                                   *)
(***************************************************************************)
\* Mutant: the check of sand + clay is missing.
CheckArgs_NoSum(sand_, clay_, ompc_) ==
    /\ ~(Lt(sand_, Zero) \/ Lt(Q(1, 0), sand_))
    /\ ~(Lt(clay_, Zero) \/ Lt(Q(1, 0), clay_))
    /\ ~(Lt(ompc_, Zero) \/ Lt(Q(70, 0), ompc_))

\* Mutant: organic matter of exactly 70 is rejected (>= for >).
CheckArgs_Ge70(sand_, clay_, ompc_) ==
    /\ ~(Lt(sand_, Zero) \/ Lt(Q(1, 0), sand_))
    /\ ~(Lt(clay_, Zero) \/ Lt(Q(1, 0), clay_))
    /\ ~(Lt(ompc_, Zero) \/ Le(Q(70, 0), ompc_))
    /\ ~Lt(Q(1, 0), Add(sand_, clay_))

CheckArgs(sand_, clay_, ompc_) ==
    LET ok1 == ~(Lt(sand_, Zero) \/ Lt(Q(1, 0), sand_))
        ok2 == ~(Lt(clay_, Zero) \/ Lt(Q(1, 0), clay_))
        ok3 == ~(Lt(ompc_, Zero) \/ Lt(Q(70, 0), ompc_))
        ok4 == ~Lt(Q(1, 0), Add(sand_, clay_))
    IN ok1 /\ ok2 /\ ok3 /\ ok4

(***************************************************************************)
(* The regression chain of SWCharEst.Get.                                  *)
(***************************************************************************)
\* a + b * x + c * y ... helpers keep Python's left-to-right evaluation.
RECURSIVE SumFrom(_, _, _)
SumFrom(xs, i, acc) ==
    IF i > Len(xs) \/ acc = <<>> THEN acc ELSE SumFrom(xs, i + 1, Add(acc, xs[i]))
Sum(xs) == SumFrom(xs, 2, xs[1])

\* Mutant: organic matter is not clamped.
ClampOm_None(ompc_) == ompc_

ClampOm(ompc_) == RMin(Q(70, 0), ompc_)

Theta1500t(s, c, o) ==
    Sum(<<Mul(Q(0 - 24, 3), s), Mul(Q(487, 3), c), Mul(Q(6, 3), o),
          Mul(Mul(Q(5, 3), s), o), Neg(Mul(Mul(Q(13, 3), c), o)),
          Mul(Mul(Q(68, 3), s), c), Q(31, 3)>>)

\* Mutant: the floor of 0.01 is missing.
Theta1500_NoFloor(t) == Sub(Add(t, Mul(Q(14, 2), t)), Q(2, 2))

Theta1500(t) == RMax(Q(1, 2), Sub(Add(t, Mul(Q(14, 2), t)), Q(2, 2)))

Theta33t(s, c, o) ==
    Sum(<<Mul(Q(0 - 251, 3), s), Mul(Q(195, 3), c), Mul(Q(11, 3), o),
          Mul(Mul(Q(6, 3), s), o), Neg(Mul(Mul(Q(27, 3), c), o)),
          Mul(Mul(Q(452, 3), s), c), Q(299, 3)>>)

Theta33(t) ==
    RMin(Q(80, 2),
         Sub(Sub(Add(t, Mul(Mul(Q(1283, 3), t), t)), Mul(Q(374, 3), t)), Q(15, 3)))

\* Mutant: the wilting point is not constrained again.
Reconstrain_Skip(t1500, t33) == t1500

\* Mutant: the factor 0.80 is missing.
Reconstrain_NoFactor(t1500, t33) == RMin(t1500, t33)

Reconstrain(t1500, t33) == RMin(t1500, Mul(Q(80, 2), t33))

ThetaS33t(s, c, o) ==
    Sum(<<Mul(Q(278, 3), s), Mul(Q(34, 3), c), Mul(Q(22, 3), o),
          Neg(Mul(Mul(Q(18, 3), s), o)), Neg(Mul(Mul(Q(27, 3), c), o)),
          Neg(Mul(Mul(Q(584, 3), s), c)), Q(78, 3)>>)

ThetaS33(t) == Sub(Add(t, Mul(Q(636, 3), t)), Q(107, 3))

\* Mutant: the constant 0.043 is subtracted.
ThetaS_MinusConst(t33, tS33, s) == Sub(Sub(Add(t33, tS33), Mul(Q(97, 3), s)), Q(43, 3))

ThetaS(t33, tS33, s) == Add(Sub(Add(t33, tS33), Mul(Q(97, 3), s)), Q(43, 3))

\* B = 3.816713 / ( math.log(theta33) - math.log(theta1500) )
Quotient(a, b) == IF b = Zero THEN [exc |-> "ZeroDivisionError", val |-> Zero]
                  ELSE [exc |-> "", val |-> Div(a, b)]
SlopeOf(l33, l1500) ==
    IF l33.exc # "" THEN l33
    ELSE IF l1500.exc # "" THEN l1500
    ELSE Quotient(Q(3816713, 6), Sub(l33.val, l1500.val))
SlopeB(t33, t1500) == SlopeOf(MathLog(t33), MathLog(t1500))

Lamda(b) == Div(Q(1, 0), b)

\* Ks = 1930.0 * math.pow( ( thetaS - theta33 ), (3.0 - lamda) ) / 36000.0
Scaled(p) == IF p.exc # "" THEN p
             ELSE [exc |-> "", val |-> IntDiv(Mul(Q(1930, 0), p.val), 36000)]
\* Mutant: the exponent is 3 + lamda.
Conductivity_PlusLamda(tS, t33, lam) == Scaled(MathPow(Sub(tS, t33), Add(Q(3, 0), lam)))

Conductivity(tS, t33, lam) == Scaled(MathPow(Sub(tS, t33), Sub(Q(3, 0), lam)))

Results(t1500, t33, tS, ks) ==
    [kind |-> "dict", WP |-> Round6(t1500), FC |-> Round6(t33),
     thetaS |-> Round6(tS), Ks |-> Round6(ks)]

None == [kind |-> "None", WP |-> 0, FC |-> 0, thetaS |-> 0, Ks |-> 0]
Raised(e) == [kind |-> e, WP |-> 0, FC |-> 0, thetaS |-> 0, Ks |-> 0]
NoValue == [kind |-> "", WP |-> 0, FC |-> 0, thetaS |-> 0, Ks |-> 0]

(***************************************************************************)
(* The test harness (src/tests/Test_SWCharEst.py).                         *)
(***************************************************************************)
\* AreClose( a, b, threshold ); the test 1.0 + (a - b) - 1.0 != 0.0 is a # b.
AreClose(a, b, threshold) ==
    IF Sub(a, b) = Zero THEN TRUE
    ELSE IF a # Zero THEN Le(Abs(Div(Sub(a, b), a)), threshold)
    ELSE IF b # Zero THEN Le(Abs(Div(Sub(a, b), b)), threshold)
    ELSE TRUE

\* list( results.values() ), as reals
Values(r) == <<Q(r.WP, 6), Q(r.FC, 6), Q(r.thetaS, 6), Q(r.Ks, 6)>>

\* Compare( expected, results ): whether the harness prints "passed".
Compare(e, r) ==
    /\ AreClose(e[1], r[1], Q(1, 4))
    /\ AreClose(e[2], r[2], Q(1, 4))
    /\ AreClose(e[3], r[3], Q(1, 4))
    /\ AreClose(e[4], r[4], Q(1, 3))
(***************************************************************************)
(* The state: one call of Get at a time.  pc is the position in Get, the   *)
(* arguments and locals carry the names of the source, ret is what the     *)
(* caller receives, stdout what DEBUG printed.  track and prev belong to   *)
(* the observer: with track set, prev holds the arguments and the outcome  *)
(* of the call before the current one.                                     *)
(***************************************************************************)
VARIABLES pc, self, sand, clay, ompc, DEBUG,
          om, theta1500t, theta1500, theta33t, theta33,
          thetaS33t, thetaS33, thetaS, B, lamda, Ks,
          ret, stdout, track, prev

args == <<self, sand, clay, ompc, DEBUG>>
locals == <<om, theta1500t, theta1500, theta33t, theta33,
            thetaS33t, thetaS33, thetaS, B, lamda, Ks>>
vars == <<pc, args, locals, ret, stdout, track, prev>>

\* A local that is not bound yet.
Unbound == <<>>
NoPrev == [self |-> 0, sand |-> 0, clay |-> 0, ompc |-> 0, DEBUG |-> FALSE, ret |-> NoValue]

NoFrame ==
    /\ pc = "idle"
    /\ self = 0 /\ sand = 0 /\ clay = 0 /\ ompc = 0 /\ DEBUG = FALSE
    /\ om = Unbound /\ theta1500t = Unbound /\ theta1500 = Unbound
    /\ theta33t = Unbound /\ theta33 = Unbound /\ thetaS33t = Unbound
    /\ thetaS33 = Unbound /\ thetaS = Unbound /\ B = Unbound
    /\ lamda = Unbound /\ Ks = Unbound
    /\ ret = NoValue /\ stdout = <<>>

Init == NoFrame /\ track = FALSE /\ prev = NoPrev
InitPairs == NoFrame /\ track = TRUE /\ prev = NoPrev

\* swc.Get( sand, clay, ompc, DEBUG ): a caller enters Get.
Call ==
    /\ pc = "idle"
    /\ \E a \in (IF track THEN PairCalls ELSE GridCalls \cup TestCalls) :
          /\ self' = a[1] /\ sand' = a[2] /\ clay' = a[3] /\ ompc' = a[4]
          /\ DEBUG' = a[5]
    /\ pc' = "clamp"
    /\ UNCHANGED <<locals, ret, stdout, track, prev>>

\* om = min ( 70.0, ompc )
Clamp ==
    /\ pc = "clamp"
    /\ om' = ClampOm(Frac(ompc))
    /\ pc' = "check"
    /\ UNCHANGED <<args, theta1500t, theta1500, theta33t, theta33, thetaS33t,
                   thetaS33, thetaS, B, lamda, Ks, ret, stdout, track, prev>>

\* if ( not self.__CheckArgs(sand, clay, om) ): return None
Validate ==
    /\ pc = "check"
    /\ IF CheckArgs(Frac(sand), Frac(clay), om)
       THEN pc' = "wilting" /\ ret' = ret
       ELSE pc' = "returned" /\ ret' = None
    /\ UNCHANGED <<args, locals, stdout, track, prev>>

\* theta1500t, and theta1500 = max( 0.01, ... )
WiltingPoint ==
    /\ pc = "wilting"
    /\ theta1500t' = Theta1500t(Frac(sand), Frac(clay), om)
    /\ theta1500' = Theta1500(theta1500t')
    /\ pc' = "field"
    /\ UNCHANGED <<args, om, theta33t, theta33, thetaS33t, thetaS33, thetaS,
                   B, lamda, Ks, ret, stdout, track, prev>>

\* theta33t, and theta33 = min( 0.80, ... )
FieldCapacity ==
    /\ pc = "field"
    /\ theta33t' = Theta33t(Frac(sand), Frac(clay), om)
    /\ theta33' = Theta33(theta33t')
    /\ pc' = "constrain"
    /\ UNCHANGED <<args, om, theta1500t, theta1500, thetaS33t, thetaS33, thetaS,
                   B, lamda, Ks, ret, stdout, track, prev>>

\* theta1500 = min( theta1500, 0.80 * theta33 )
Constrain ==
    /\ pc = "constrain"
    /\ theta1500' = Reconstrain(theta1500, theta33)
    /\ pc' = "saturation"
    /\ UNCHANGED <<args, om, theta1500t, theta33t, theta33, thetaS33t, thetaS33,
                   thetaS, B, lamda, Ks, ret, stdout, track, prev>>

\* thetaS33t, thetaS33 and thetaS
Saturation ==
    /\ pc = "saturation"
    /\ thetaS33t' = ThetaS33t(Frac(sand), Frac(clay), om)
    /\ thetaS33' = ThetaS33(thetaS33t')
    /\ thetaS' = ThetaS(theta33, thetaS33', Frac(sand))
    /\ pc' = "slope"
    /\ UNCHANGED <<args, om, theta1500t, theta1500, theta33t, theta33,
                   B, lamda, Ks, ret, stdout, track, prev>>

\* B = 3.816713 / ( log(theta33) - log(theta1500) ) and lamda = 1.0 / B;
\* an exception of log or of the division leaves Get.
Slope ==
    /\ pc = "slope"
    /\ \E b \in {SlopeB(theta33, theta1500)} :
          IF b.exc # ""
          THEN pc' = "raised" /\ ret' = Raised(b.exc) /\ B' = B /\ lamda' = lamda
          ELSE pc' = "conductivity" /\ ret' = ret /\ B' = b.val /\ lamda' = Lamda(b.val)
    /\ UNCHANGED <<args, om, theta1500t, theta1500, theta33t, theta33, thetaS33t,
                   thetaS33, thetaS, Ks, stdout, track, prev>>

\* Ks = 1930.0 * pow( thetaS - theta33, 3.0 - lamda ) / 36000.0;
\* an exception of pow leaves Get.
Conduct ==
    /\ pc = "conductivity"
    /\ \E k \in {Conductivity(thetaS, theta33, lamda)} :
          IF k.exc # ""
          THEN pc' = "raised" /\ ret' = Raised(k.exc) /\ Ks' = Ks
          ELSE pc' = "debug" /\ ret' = ret /\ Ks' = k.val
    /\ UNCHANGED <<args, om, theta1500t, theta1500, theta33t, theta33, thetaS33t,
                   thetaS33, thetaS, B, lamda, stdout, track, prev>>

\* Mutant: the diagnostic branch rebinds theta1500 to the raw regression.
DebugPrint_Rebinds ==
    /\ pc = "debug"
    /\ stdout' = IF DEBUG
                 THEN <<Frac(sand), Frac(clay), om, theta1500t, theta1500, theta33t,
                        theta33, thetaS33t, thetaS33, thetaS, B, lamda, Ks>>
                 ELSE stdout
    /\ theta1500' = IF DEBUG THEN theta1500t ELSE theta1500
    /\ pc' = "results"
    /\ UNCHANGED <<args, om, theta1500t, theta33t, theta33, thetaS33t, thetaS33,
                   thetaS, B, lamda, Ks, ret, track, prev>>

\* if ( DEBUG ): print( ... )
DebugPrint ==
    /\ pc = "debug"
    /\ stdout' = IF DEBUG
                 THEN <<Frac(sand), Frac(clay), om, theta1500t, theta1500, theta33t,
                        theta33, thetaS33t, thetaS33, thetaS, B, lamda, Ks>>
                 ELSE stdout
    /\ pc' = "results"
    /\ UNCHANGED <<args, locals, ret, track, prev>>

\* results = { "WP": round( theta1500, 6 ), ... }; return results
Return ==
    /\ pc = "results"
    /\ ret' = Results(theta1500, theta33, thetaS, Ks)
    /\ pc' = "returned"
    /\ UNCHANGED <<args, locals, stdout, track, prev>>

\* The caller has the outcome (a value or an exception) and the frame of
\* Get is gone; an observer that tracks calls notes the call.
Leave ==
    /\ pc \in {"returned", "raised"}
    /\ prev' = IF track
               THEN [self |-> self, sand |-> sand, clay |-> clay, ompc |-> ompc,
                     DEBUG |-> DEBUG, ret |-> ret]
               ELSE prev
    /\ pc' = "idle"
    /\ self' = 0 /\ sand' = 0 /\ clay' = 0 /\ ompc' = 0 /\ DEBUG' = FALSE
    /\ om' = Unbound /\ theta1500t' = Unbound /\ theta1500' = Unbound
    /\ theta33t' = Unbound /\ theta33' = Unbound /\ thetaS33t' = Unbound
    /\ thetaS33' = Unbound /\ thetaS' = Unbound /\ B' = Unbound
    /\ lamda' = Unbound /\ Ks' = Unbound
    /\ ret' = NoValue /\ stdout' = <<>>
    /\ UNCHANGED track

Next ==
    \/ Call \/ Clamp \/ Validate \/ WiltingPoint \/ FieldCapacity \/ Constrain
    \/ Saturation \/ Slope \/ Conduct \/ DebugPrint \/ Return \/ Leave

Spec == Init /\ [][Next]_vars
SpecPairs == InitPairs /\ [][Next]_vars
(***************************************************************************)
(* Properties.                                                             *)
(***************************************************************************)
\* The call's arguments pass the four range checks as the caller sees
\* them: 0 <= sand <= 1, 0 <= clay <= 1, sand + clay <= 1, 0 <= ompc.
Valid ==
    /\ pc # "idle"
    /\ 0 <= sand /\ sand <= 100 /\ 0 <= clay /\ clay <= 100
    /\ sand + clay <= 100 /\ 0 <= ompc

\* Get has ended: it returned a value or raised an exception.
Ended == pc \in {"returned", "raised"}

\* theta1500 holds its final, re-constrained value (step 5 is done).
Constrained == pc \in {"saturation", "slope", "conductivity", "debug", "results",
                       "returned", "raised"} /\ theta1500 # Unbound

\* C1: a call with sand < 0, sand > 1, clay < 0, clay > 1, ompc < 0 or
\* sand + clay > 1 computes nothing and returns None, never a result
\* dictionary and never an exception; so does Get(0.7, 0.5, ompc) for every ompc.
C1_InvalidInputReturnsNone ==
    (pc # "idle" /\ (sand < 0 \/ sand > 100 \/ clay < 0 \/ clay > 100
                     \/ ompc < 0 \/ sand + clay > 100))
    => /\ pc \in {"clamp", "check", "returned"}
       /\ pc = "returned" => ret = None
       /\ theta1500t = Unbound /\ Ks = Unbound

C1_Witness == pc = "returned" /\ sand = 70 /\ clay = 50 /\ ompc = 3000 /\ ret = None

\* C2: with the same sand and clay, a call with ompc > 70 and a call with
\* ompc = 70 (more generally, two calls with ompc >= 70) have the same
\* outcome: both None, both the same exception, or the same four values.
C2_ClampInvariant ==
    (Ended /\ prev.ret.kind # "" /\ prev.sand = sand /\ prev.clay = clay
     /\ prev.ompc >= 7000 /\ ompc >= 7000)
    => ret = prev.ret

C2_Witness ==
    /\ pc = "returned" /\ ret.kind = "dict" /\ ompc > 7000
    /\ prev.sand = sand /\ prev.clay = clay /\ prev.ompc = 7000 /\ prev.ret = ret

\* C3, as stated: for every input that passes validation the final theta33
\* is at most 0.80 and the final theta1500 is at least 0.01.
C3_Original ==
    (Valid /\ Constrained) => Le(theta33, Q(80, 2)) /\ Le(Q(1, 2), theta1500)

\* C3, amended: for every input that passes validation theta33 <= 0.80; the
\* step-2 value of theta1500 is >= 0.01; the final theta1500 is
\* >= min(0.01, 0.80 * theta33), and it is >= 0.01 exactly when
\* theta33 >= 0.0125.
C3_BoundsAmended ==
    /\ (Valid /\ pc \in {"field", "constrain"}) => Le(Q(1, 2), theta1500)
    /\ (Valid /\ Constrained)
       => /\ Le(theta33, Q(80, 2))
          /\ Le(RMin(Q(1, 2), Mul(Q(80, 2), theta33)), theta1500)
          /\ Le(Q(1, 2), theta1500) <=> Le(Q(125, 4), theta33)

C3_Witness ==
    /\ Valid /\ pc = "returned" /\ ret.kind = "dict" /\ ret.WP < 10000
    /\ Lt(theta1500, Q(1, 2)) /\ Lt(theta33, Q(125, 4))

\* C4, as stated: in every result dictionary the rounded values satisfy
\* WP <= 0.8 * FC.
C4_Original ==
    (pc = "returned" /\ ret.kind = "dict") => 10 * ret.WP <= 8 * ret.FC

\* C4, amended: in every result dictionary the values before rounding
\* satisfy theta1500 <= 0.8 * theta33, and the rounded values satisfy
\* WP <= 0.8 * FC + 0.0000009.
C4_OrderingAmended ==
    (pc = "returned" /\ ret.kind = "dict")
    => /\ Le(theta1500, Mul(Q(80, 2), theta33))
       /\ 10 * ret.WP <= 8 * ret.FC + 9

C4_Witness ==
    /\ pc = "returned" /\ ret.kind = "dict" /\ 10 * ret.WP > 8 * ret.FC
    /\ theta1500 = Mul(Q(80, 2), theta33)

\* C5: Get(0.85, 0.04, 2.08) and Get(0.15, 0.18, 3.05) return four values
\* that Compare accepts against the expected values of the test harness
\* (relative error 1e-4 for WP, FC, thetaS and 1e-3 for Ks).
C5_ReferenceCases ==
    (pc # "idle" /\ <<sand, clay, ompc>> \in soilTexture)
    => /\ pc # "raised"
       /\ pc = "returned"
          => ret.kind = "dict" /\ Compare(expected[<<sand, clay, ompc>>], Values(ret))

C5_Witness ==
    /\ pc = "returned" /\ <<sand, clay, ompc>> = <<15, 18, 305>>
    /\ ret = [kind |-> "dict", WP |-> 128595, FC |-> 331484, thetaS |-> 505032, Ks |-> 433]

\* C6: Get(0, 0, 0) passes validation, raises nothing and returns four
\* values; there theta1500 > 0, theta33 > 0, theta33 # theta1500 and
\* thetaS >= theta33.
C6_Boundary ==
    (pc # "idle" /\ sand = 0 /\ clay = 0 /\ ompc = 0)
    => /\ pc # "raised"
       /\ pc = "returned" => ret.kind = "dict"
       /\ pc \in {"slope", "conductivity", "debug", "results", "returned"}
          => /\ Sgn(theta1500) > 0 /\ Sgn(theta33) > 0
             /\ theta33 # theta1500 /\ Le(theta33, thetaS)

C6_Witness ==
    /\ pc = "returned" /\ sand = 0 /\ clay = 0 /\ ompc = 0
    /\ ret = [kind |-> "dict", WP |-> 15340, FC |-> 286875, thetaS |-> 350483, Ks |-> 114]

\* C7: the outcome of a call depends on (sand, clay, ompc) only: a call
\* that follows a call with the same three arguments, on the same or another
\* instance and with DEBUG on or off, has the same outcome; and between calls
\* nothing of a call is left for the next one to read.
C7_Deterministic ==
    /\ (Ended /\ prev.ret.kind # "" /\ prev.sand = sand /\ prev.clay = clay
        /\ prev.ompc = ompc)
       => ret = prev.ret
    /\ pc = "idle" => locals = <<Unbound, Unbound, Unbound, Unbound, Unbound, Unbound,
                                Unbound, Unbound, Unbound, Unbound, Unbound>>
                      /\ ret = NoValue

C7_Witness ==
    /\ pc = "returned" /\ ret.kind = "dict" /\ prev.ret = ret
    /\ prev.sand = sand /\ prev.clay = clay /\ prev.ompc = ompc
    /\ prev.self # self /\ prev.DEBUG /\ ~DEBUG

\* C8: on a call through Get the value __CheckArgs sees is never above 70;
\* its organic-matter condition rejects exactly when the caller's ompc is
\* negative; and every call with 0 <= sand <= 1, 0 <= clay <= 1,
\* sand + clay <= 1 and ompc >= 0 passes validation.
C8_ClampBeforeValidate ==
    /\ (pc # "idle" /\ om # Unbound)
       => /\ ~Lt(Q(70, 0), om)
          /\ (Lt(om, Zero) \/ Lt(Q(70, 0), om)) <=> ompc < 0
    /\ Valid => ~(pc = "returned" /\ ret = None)
    /\ (pc = "returned" /\ ompc < 0) => ret = None

C8_Witness == Valid /\ pc = "wilting" /\ ompc > 7000 /\ om = Q(70, 0)

\* C9, as stated: for every input that passes validation, theta33 > 0,
\* the re-constrained theta1500 > 0 and thetaS - theta33 >= 0, and Get
\* raises no domain error and returns a result dictionary.
C9_Totality ==
    Valid => /\ pc # "raised"
             /\ pc = "returned" => ret.kind = "dict"
             /\ pc \in {"slope", "conductivity", "debug", "results", "returned"}
                => /\ Sgn(theta33) > 0 /\ Sgn(theta1500) > 0
                   /\ Le(theta33, thetaS)

====
